---- MODULE Spec2Model ----
(***************************************************************************)
(* A model of numba/targets/cpu.py: the CPU target context (the native     *)
(* function registry kept by init, get_executable, remove_native_function) *)
(* and the refcount pair elimination pass (remove_refct_calls,             *)
(* remove_refct_pairs).                                                    *)
(***************************************************************************)
EXTENDS Integers, Sequences, FiniteSets, TLC

VARIABLES
    \* ---- remove_refct_pairs (one basic block) ----
    bb,            \* bb.instructions: the block's instruction list
    pc,            \* position in remove_refct_pairs: "loop", "mark", "sweep", "done"
    didsomething,  \* the local flag of remove_refct_pairs
    increfs,       \* the local dict operand -> Py_IncRef instruction
    decrefs,       \* the local dict operand -> Py_DecRef instruction
    bb0,           \* history: the block as passed to remove_refct_pairs
    bbIter,        \* history: the block when the current iteration began
    iters,         \* history: number of iterations of the while loop begun
    \* ---- remove_refct_calls (one function) ----
    func,          \* func.basic_blocks: a sequence of blocks
    func0,         \* history: the function before the first run
    funcPrev,      \* history: the function before the latest run
    runs,          \* history: number of remove_refct_calls runs completed
    \* ---- CPUContext ----
    native_funcs,  \* self.native_funcs: dict callable -> (name, address)
    codegen,       \* self._internal_codegen: identity of the JITCPUCodegen
    made,          \* the objects _dynfunc.make_function has created, in order
    built,         \* number of JITCPUCodegen instances constructed
    removed,       \* history: the callables remove_native_function has deleted
    last           \* history: the latest call, its arguments, result and pre-state

passVars == <<bb, pc, didsomething, increfs, decrefs, bb0, bbIter, iters>>
callsVars == <<func, func0, funcPrev, runs>>
ctxVars == <<native_funcs, codegen, made, built, removed, last>>
vars == <<bb, pc, didsomething, increfs, decrefs, bb0, bbIter, iters,
          func, func0, funcPrev, runs,
          native_funcs, codegen, made, built, removed, last>>

-----------------------------------------------------------------------------
(* Bounds *)

\* longest instruction list of a block passed to remove_refct_pairs
MaxLen == 5
\* most instructions, over all its blocks, of a function passed to
\* remove_refct_calls
MaxInsts == 4
\* most remove_refct_calls runs on one function
MaxRuns == 2
\* most get_executable calls in one behaviour
MaxMade == 3
\* most init() calls in one behaviour, the constructor's included
MaxBuilt == 2

-----------------------------------------------------------------------------
(* IR instructions *)

\* operand values (LLVM values, compared by identity)
Operands == {"a", "b"}

\* The shapes of instruction the pass tells apart: a call to Py_IncRef or to
\* Py_DecRef on an operand, a call to some other function, and an instruction
\* that is no call at all.
Shapes ==
    [call : {TRUE}, fname : {"Py_IncRef", "Py_DecRef"}, arg : Operands]
    \cup {[call |-> TRUE, fname |-> "PyNumber_Add", arg |-> "a"],
          [call |-> FALSE, fname |-> "", arg |-> "a"]}

\* An instruction object: a shape plus its identity (its position in the
\* block as first built).
Inst(i, s) == [id |-> i, call |-> s.call, fname |-> s.fname, arg |-> s.arg]

BlockOf(ss) == [i \in 1..Len(ss) |-> Inst(i, ss[i])]

ShapeSeqs(n) == [1..n -> Shapes]

\* isinstance(inst, lc.CallOrInvokeInstruction) and
\* inst.called_function.name == fname
IsRefct(inst, fname) == inst.call /\ inst.fname = fname

-----------------------------------------------------------------------------
(* Python dicts *)

EmptyDict == <<>>

\* d[k] = v
DictSet(d, k, v) == [x \in (DOMAIN d) \cup {k} |-> IF x = k THEN v ELSE d[x]]

\* del d[k], for k in d
DictDel(d, k) == [x \in (DOMAIN d) \ {k} |-> d[x]]

-----------------------------------------------------------------------------
(* remove_refct_pairs *)

\* The mark loop (lines 215-223) restricted to one callee name: scanning the
\* instructions in order, d[arg] = inst for each matching call, so a later
\* call on the same operand overwrites an earlier one.
\* Faulty variant, to test the properties against: the first call on an operand is the one recorded.
MarkFirstWins(insts, fname) ==
    LET keys == {insts[i].arg : i \in {j \in 1..Len(insts) : IsRefct(insts[j], fname)}}
    IN [v \in keys |->
          insts[CHOOSE i \in 1..Len(insts) :
                  /\ IsRefct(insts[i], fname) /\ insts[i].arg = v
                  /\ \A j \in 1..(i-1) : ~(IsRefct(insts[j], fname) /\ insts[j].arg = v)]]

Mark(insts, fname) ==
    LET scan[i \in 0..Len(insts)] ==
          IF i = 0 THEN EmptyDict
          ELSE IF IsRefct(insts[i], fname)
               THEN DictSet(scan[i-1], insts[i].arg, insts[i])
               ELSE scan[i-1]
    IN scan[Len(insts)]

\* The operands the sweep loop acts on: the keys of increfs that are in decrefs
\* (lines 226-227).
Paired(incs, decs) == {val \in DOMAIN incs : val \in DOMAIN decs}

\* The sweep loop: for each paired operand, increfs[val].erase_from_parent()
\* and decrefs[val].erase_from_parent().  The erased instructions are distinct, so the order in which
\* the dict is walked does not matter.
\* Faulty variant, to test the properties against: the decref of a pair is left in place.
SweepOnlyIncref(insts, incs, decs) ==
    LET gone == {incs[val].id : val \in Paired(incs, decs)}
    IN SelectSeq(insts, LAMBDA x : x.id \notin gone)

\* Faulty variant, to test the properties against: every recorded incref is erased, paired or not.
SweepUnpaired(insts, incs, decs) ==
    LET gone == {incs[val].id : val \in DOMAIN incs}
                \cup {decs[val].id : val \in Paired(incs, decs)}
    IN SelectSeq(insts, LAMBDA x : x.id \notin gone)

Sweep(insts, incs, decs) ==
    LET gone == {incs[val].id : val \in Paired(incs, decs)}
                \cup {decs[val].id : val \in Paired(incs, decs)}
    IN SelectSeq(insts, LAMBDA x : x.id \notin gone)

\* didsomething after the sweep loop (line 230).
\* Faulty variant, to test the properties against: the flag is set for every key of increfs.
SweepFlagAnyIncref(incs, decs) == DOMAIN incs # {}

SweepFlag(incs, decs) == Paired(incs, decs) # {}

\* The while test; a true test starts an iteration (lines 208-212).  The
\* count of iterations is a history variable and stops counting past
\* Len(bb0) + 1, which no run of the loop reaches.
\* Faulty variant, to test the properties against: the body runs once, "if" for "while".
WhileTestOnce ==
    /\ pc = "loop"
    /\ IF didsomething /\ iters = 0
       THEN /\ pc' = "mark"
            /\ didsomething' = FALSE
            /\ increfs' = EmptyDict
            /\ decrefs' = EmptyDict
            /\ bbIter' = bb
            /\ iters' = IF iters <= Len(bb0) THEN iters + 1 ELSE iters
       ELSE /\ pc' = "done"
            /\ UNCHANGED <<didsomething, increfs, decrefs, bbIter, iters>>
    /\ UNCHANGED <<bb, bb0>>
    /\ UNCHANGED callsVars
    /\ UNCHANGED ctxVars

WhileTest ==
    /\ pc = "loop"
    /\ IF didsomething
       THEN /\ pc' = "mark"
            /\ didsomething' = FALSE
            /\ increfs' = EmptyDict
            /\ decrefs' = EmptyDict
            /\ bbIter' = bb
            /\ iters' = IF iters <= Len(bb0) THEN iters + 1 ELSE iters
       ELSE /\ pc' = "done"
            /\ UNCHANGED <<didsomething, increfs, decrefs, bbIter, iters>>
    /\ UNCHANGED <<bb, bb0>>
    /\ UNCHANGED callsVars
    /\ UNCHANGED ctxVars

\* The mark loop (lines 215-223).
MarkStep ==
    /\ pc = "mark"
    /\ increfs' = Mark(bb, "Py_IncRef")
    /\ decrefs' = Mark(bb, "Py_DecRef")
    /\ pc' = "sweep"
    /\ UNCHANGED <<bb, didsomething, bb0, bbIter, iters>>
    /\ UNCHANGED callsVars
    /\ UNCHANGED ctxVars

\* The sweep loop (lines 226-230).
SweepStep ==
    /\ pc = "sweep"
    /\ bb' = Sweep(bb, increfs, decrefs)
    /\ didsomething' = (didsomething \/ SweepFlag(increfs, decrefs))
    /\ pc' = "loop"
    /\ UNCHANGED <<increfs, decrefs, bb0, bbIter, iters>>
    /\ UNCHANGED callsVars
    /\ UNCHANGED ctxVars

\* remove_refct_pairs as a function of the block: iterate mark and sweep
\* until an iteration erases nothing.
RECURSIVE remove_refct_pairs_loop(_)
remove_refct_pairs_loop(insts) ==
    LET incs == Mark(insts, "Py_IncRef")
        decs == Mark(insts, "Py_DecRef")
    IN IF SweepFlag(incs, decs)
       THEN remove_refct_pairs_loop(Sweep(insts, incs, decs))
       ELSE Sweep(insts, incs, decs)

\* Faulty variant, to test the properties against: a single mark and sweep.
remove_refct_pairs_one_pass(insts) ==
    Sweep(insts, Mark(insts, "Py_IncRef"), Mark(insts, "Py_DecRef"))

remove_refct_pairs(insts) == remove_refct_pairs_loop(insts)

-----------------------------------------------------------------------------
(* remove_refct_calls *)

\* remove_null_refct_call: its body is "pass"
remove_null_refct_call(insts) == insts

\* the blocks of a function: a sequence of instruction shapes cut after the
\* positions in cuts, each block's instructions numbered from 1
Split(ss, cuts) ==
    LET ends == cuts \cup {Len(ss)}
        EndOf(k) == CHOOSE e \in ends : Cardinality({c \in ends : c <= e}) = k
        StartOf(k) == IF k = 1 THEN 1 ELSE EndOf(k - 1) + 1
    IN IF Len(ss) = 0 THEN <<>>
       ELSE [k \in 1..Cardinality(ends) |->
               BlockOf(SubSeq(ss, StartOf(k), EndOf(k)))]

\* remove_refct_calls(func): both passes on every block, in order (lines
\* 180-182).  The blocks share no instruction, so the loop is a map.
remove_refct_calls ==
    /\ runs < MaxRuns
    /\ funcPrev' = func
    /\ func' = [i \in 1..Len(func) |->
                  remove_refct_pairs(remove_null_refct_call(func[i]))]
    /\ runs' = runs + 1
    /\ UNCHANGED func0
    /\ UNCHANGED passVars
    /\ UNCHANGED ctxVars

-----------------------------------------------------------------------------
(* CPUContext *)

\* function descriptors (fndesc): the fields get_executable reads
FnDescs ==
    {[llvm_func_name |-> n, llvm_cpython_wrapper_name |-> <<"wrapper", n>>,
      native |-> nat] : n \in {"add", "mul"}, nat \in BOOLEAN}

\* execution environments
Envs == {"env1", "env2"}

\* library.get_function(name): a function object with that name
get_function(name) == [name |-> name]

\* library.get_pointer_to_function(name): distinct symbols, distinct addresses
get_pointer_to_function(name) == [address_of |-> name]

\* _dynfunc.make_function(module, name, doc, fnptr, env): a new object, the
\* n-th made, bound to fnptr and env
make_function(n, fnptr, env) == [id |-> n, fnptr |-> fnptr, env |-> env]

\* a callable get_executable never made
Stranger == [id |-> 0, fnptr |-> [address_of |-> "elsewhere"], env |-> "none"]

\* the values a call returns, as a tuple; <<>> when it raised
NoValue == <<>>

\* UniqueDict.__setitem__ (numba.utils): a dict that refuses to overwrite
UniqueDictSetItem(d, k, v) ==
    IF k \in DOMAIN d
    THEN [raised |-> "AssertionError", dict |-> d]
    ELSE [raised |-> "none", dict |-> DictSet(d, k, v)]

Call(op, fndesc, env, f, ret, raised) ==
    [op |-> op, fndesc |-> fndesc, env |-> env, func |-> f, ret |-> ret,
     raised |-> raised, pre_native_funcs |-> native_funcs, pre_codegen |-> codegen]

NoFnDesc == [llvm_func_name |-> "", llvm_cpython_wrapper_name |-> <<>>, native |-> FALSE]

\* init(): a new registry and a new code generator (lines 41-57)
init ==
    /\ built < MaxBuilt
    /\ native_funcs' = EmptyDict
    /\ built' = built + 1
    /\ codegen' = built + 1
    /\ last' = Call("init", NoFnDesc, "none", Stranger, NoValue, "none")
    /\ UNCHANGED <<made, removed>>
    /\ UNCHANGED passVars
    /\ UNCHANGED callsVars

\* remove_native_function(func): del self.native_funcs[func] (line 97)
\* Faulty variant, to test the properties against: a missing key is passed over in silence.
remove_native_function_quiet(f) ==
    /\ native_funcs' = DictDel(native_funcs, f)
    /\ removed' = IF f \in DOMAIN native_funcs THEN removed \cup {f} ELSE removed
    /\ last' = Call("remove_native_function", NoFnDesc, "none", f, NoValue, "none")
    /\ UNCHANGED <<codegen, made, built>>
    /\ UNCHANGED passVars
    /\ UNCHANGED callsVars

remove_native_function(f) ==
    /\ IF f \in DOMAIN native_funcs
       THEN /\ native_funcs' = DictDel(native_funcs, f)
            /\ removed' = removed \cup {f}
            /\ last' = Call("remove_native_function", NoFnDesc, "none", f,
                            NoValue, "none")
       ELSE /\ UNCHANGED <<native_funcs, removed>>
            /\ last' = Call("remove_native_function", NoFnDesc, "none", f,
                            NoValue, "KeyError")
    /\ UNCHANGED <<codegen, made, built>>
    /\ UNCHANGED passVars
    /\ UNCHANGED callsVars

\* get_executable(library, fndesc, env) (lines 135-149)
\* Faulty variant, to test the properties against: the wrapper's address is registered in place of the function's.
get_executable_wrapper_address(fndesc, env) ==
    /\ Len(made) < MaxMade
    /\ LET fn == get_function(fndesc.llvm_func_name)
           wrapper == get_function(fndesc.llvm_cpython_wrapper_name)
           baseptr == get_pointer_to_function(fn.name)
           fnptr == get_pointer_to_function(wrapper.name)
           cfunc == make_function(Len(made) + 1, fnptr, env)
           set == IF fndesc.native
                  THEN UniqueDictSetItem(native_funcs, cfunc,
                                         <<fndesc.llvm_func_name, fnptr>>)
                  ELSE [raised |-> "none", dict |-> native_funcs]
       IN /\ made' = Append(made, cfunc)
          /\ native_funcs' = set.dict
          /\ last' = Call("get_executable", fndesc, env, cfunc,
                          IF set.raised = "none" THEN <<cfunc>> ELSE NoValue,
                          set.raised)
    /\ UNCHANGED <<codegen, built, removed>>
    /\ UNCHANGED passVars
    /\ UNCHANGED callsVars

get_executable(fndesc, env) ==
    /\ Len(made) < MaxMade
    /\ LET fn == get_function(fndesc.llvm_func_name)
           wrapper == get_function(fndesc.llvm_cpython_wrapper_name)
           baseptr == get_pointer_to_function(fn.name)
           fnptr == get_pointer_to_function(wrapper.name)
           cfunc == make_function(Len(made) + 1, fnptr, env)
           set == IF fndesc.native
                  THEN UniqueDictSetItem(native_funcs, cfunc,
                                         <<fndesc.llvm_func_name, baseptr>>)
                  ELSE [raised |-> "none", dict |-> native_funcs]
       IN /\ made' = Append(made, cfunc)
          /\ native_funcs' = set.dict
          /\ last' = Call("get_executable", fndesc, env, cfunc,
                          IF set.raised = "none" THEN <<cfunc>> ELSE NoValue,
                          set.raised)
    /\ UNCHANGED <<codegen, built, removed>>
    /\ UNCHANGED passVars
    /\ UNCHANGED callsVars

-----------------------------------------------------------------------------
(* State outside the part a specification exercises *)

IdlePass ==
    /\ bb = <<>> /\ pc = "done" /\ didsomething = FALSE
    /\ increfs = EmptyDict /\ decrefs = EmptyDict
    /\ bb0 = <<>> /\ bbIter = <<>> /\ iters = 0

IdleCalls == func = <<>> /\ func0 = <<>> /\ funcPrev = <<>> /\ runs = 0

NoCall == [op |-> "none", fndesc |-> NoFnDesc, env |-> "none", func |-> Stranger,
           ret |-> NoValue, raised |-> "none",
           pre_native_funcs |-> EmptyDict, pre_codegen |-> 0]

\* a context as its constructor leaves it: init() has run once
NewContext ==
    /\ native_funcs = EmptyDict /\ codegen = 1 /\ built = 1
    /\ made = <<>> /\ removed = {}
    /\ last = NoCall

-----
(* remove_refct_pairs on one block *)

\* a block of at most MaxLen instructions
InitPairs ==
    /\ \E n \in 0..MaxLen : \E ss \in ShapeSeqs(n) : bb = BlockOf(ss)
    /\ bb0 = bb
    /\ bbIter = bb
    /\ pc = "loop"
    /\ didsomething = TRUE
    /\ increfs = EmptyDict
    /\ decrefs = EmptyDict
    /\ iters = 0
    /\ IdleCalls
    /\ NewContext

NextPairs == WhileTest \/ MarkStep \/ SweepStep

SpecPairs == InitPairs /\ [][NextPairs]_vars

\* The code runs on: a step that can be taken is taken.
FairSpecPairs == SpecPairs /\ WF_vars(NextPairs)

-----------------------------------------------------------------------------
(* remove_refct_calls on one function *)

\* a function of at most MaxInsts instructions in all, in non-empty blocks
InitCalls ==
    /\ \E n \in 0..MaxInsts : \E ss \in ShapeSeqs(n) :
          \E cuts \in SUBSET (1..(n - 1)) : func = Split(ss, cuts)
    /\ func0 = func
    /\ funcPrev = func
    /\ runs = 0
    /\ IdlePass
    /\ NewContext

NextCalls == remove_refct_calls

SpecCalls == InitCalls /\ [][NextCalls]_vars

-----------------------------------------------------------------------------
(* The context's registry *)

InitCtx == NewContext /\ IdlePass /\ IdleCalls

\* the callables a caller can pass: one made earlier, or one never made
Callables == {made[i] : i \in 1..Len(made)} \cup {Stranger}

NextCtx ==
    \/ init
    \/ \E fndesc \in FnDescs, env \in Envs : get_executable(fndesc, env)
    \/ \E f \in Callables : remove_native_function(f)

SpecCtx == InitCtx /\ [][NextCtx]_vars

-----------------------------------------------------------------------------
(* Vocabulary of the properties of remove_refct_pairs *)

INC == "Py_IncRef"
DEC == "Py_DecRef"

\* the calls to fname on operand v, in block order
CallsOn(b, fname, v) ==
    SelectSeq(b, LAMBDA x : x.call /\ x.fname = fname /\ x.arg = v)

Count(b, fname, v) == Len(CallsOn(b, fname, v))

\* the refcount calls (of either kind) on operand v, in block order
RefctCallsOn(b, v) ==
    SelectSeq(b, LAMBDA x : x.call /\ x.fname \in {INC, DEC} /\ x.arg = v)

IsRefctCall(x) == x.call /\ x.fname \in {INC, DEC}

\* the refcount calls on v are N increments followed by N decrements, N >= 1
NIncThenNDec(b, v, N) ==
    LET calls == RefctCallsOn(b, v)
    IN /\ N >= 1
       /\ Len(calls) = 2 * N
       /\ \A i \in 1..N : calls[i].fname = INC /\ calls[N + i].fname = DEC

\* v has a Py_IncRef and a Py_DecRef in b
HasPair(b, v) == Count(b, INC, v) >= 1 /\ Count(b, DEC, v) >= 1

\* the index in b of the last call to fname on v
LastIdx(b, fname, v) ==
    CHOOSE i \in 1..Len(b) :
        /\ b[i].call /\ b[i].fname = fname /\ b[i].arg = v
        /\ \A j \in (i+1)..Len(b) : ~(b[j].call /\ b[j].fname = fname /\ b[j].arg = v)

\* the instructions of b at the indices in S, in block order
Keep(b, S) ==
    LET f[i \in 0..Len(b)] ==
          IF i = 0 THEN <<>>
          ELSE IF i \in S THEN Append(f[i-1], b[i]) ELSE f[i-1]
    IN f[Len(b)]

\* increments minus decrements of v among the first n instructions of b
Net(b, n, v) ==
    Count(SubSeq(b, 1, n), INC, v) - Count(SubSeq(b, 1, n), DEC, v)

\* the index in b of the instruction with identity id
PosOf(b, id) == CHOOSE i \in 1..Len(b) : b[i].id = id

Ids(b) == {b[i].id : i \in 1..Len(b)}

\* identities of the refcount calls on v that are in b0 and no longer in b
\* (an instruction's identity is its index in the block as passed in)
ErasedOn(b0, b, v) ==
    {i \in 1..Len(b0) : IsRefctCall(b0[i]) /\ b0[i].arg = v /\ i \notin Ids(b)}

-----------------------------------------------------------------------------
(* C1 *)

\* C1: when the refcount calls of the block on an operand v are N Py_IncRef
\* calls followed by N Py_DecRef calls (N >= 1, other instructions
\* interleaved), the block remove_refct_pairs returns holds no Py_IncRef and
\* no Py_DecRef call on v.
FullCancellation ==
    pc = "done" =>
        \A v \in Operands : \A N \in 1..Len(bb0) :
            NIncThenNDec(bb0, v, N) =>
                Count(bb, INC, v) = 0 /\ Count(bb, DEC, v) = 0

\* two increments then two decrements of one operand with another
\* instruction among them, all four calls gone
FullCancellationWitness ==
    /\ pc = "done"
    /\ \E v \in Operands :
          /\ NIncThenNDec(bb0, v, 2)
          /\ Count(bb, INC, v) = 0 /\ Count(bb, DEC, v) = 0
          /\ Len(bb0) > 4
          /\ Len(bb) = Len(bb0) - 4

-----------------------------------------------------------------------------
(* C2 *)

\* C2: an operand that occurs in the block only in Py_IncRef calls, or only in
\* Py_DecRef calls, keeps every one of its refcount calls, at every point of
\* remove_refct_pairs, whatever is erased for other operands.
UnpairedUntouched ==
    \A v \in Operands :
        (Count(bb0, DEC, v) = 0 \/ Count(bb0, INC, v) = 0) =>
            RefctCallsOn(bb, v) = RefctCallsOn(bb0, v)

\* an operand with increments only, in a block that lost a pair of another
UnpairedUntouchedWitness ==
    /\ pc = "done"
    /\ Len(bb) < Len(bb0)
    /\ \E v \in Operands :
          /\ Count(bb0, INC, v) >= 1 /\ Count(bb0, DEC, v) = 0
          /\ RefctCallsOn(bb, v) = RefctCallsOn(bb0, v)

-----------------------------------------------------------------------------
(* C8 *)

\* C8 as stated: for every operand v and every instruction that is no
\* refcount call and is still in the block, increments minus decrements of v
\* before it are the same in the block passed in and in the block returned,
\* and so are the whole-block totals.
NetCountPreservedEverywhere ==
    pc = "done" =>
        \A v \in Operands :
            /\ Net(bb, Len(bb), v) = Net(bb0, Len(bb0), v)
            /\ \A p \in 1..Len(bb0) :
                  (~IsRefctCall(bb0[p]) /\ p \in Ids(bb)) =>
                      Net(bb, PosOf(bb, p) - 1, v) = Net(bb0, p - 1, v)

\* C8 amended: the whole-block totals of every operand are the same before
\* and after, and so is the net count before every surviving non-refcount
\* instruction that comes before every erased call on the operand or after
\* every erased call on it.
NetCountPreservedOutsidePairs ==
    pc = "done" =>
        \A v \in Operands :
            /\ Net(bb, Len(bb), v) = Net(bb0, Len(bb0), v)
            /\ \A p \in 1..Len(bb0) :
                  ( /\ ~IsRefctCall(bb0[p])
                    /\ p \in Ids(bb)
                    /\ \/ \A e \in ErasedOn(bb0, bb, v) : p < e
                       \/ \A e \in ErasedOn(bb0, bb, v) : e < p ) =>
                      Net(bb, PosOf(bb, p) - 1, v) = Net(bb0, p - 1, v)

\* a pair was erased and an instruction after both of its calls survives
NetCountPreservedWitness ==
    /\ pc = "done"
    /\ \E v \in Operands : \E p \in 1..Len(bb0) :
          /\ ErasedOn(bb0, bb, v) # {}
          /\ ~IsRefctCall(bb0[p])
          /\ p \in Ids(bb)
          /\ \A e \in ErasedOn(bb0, bb, v) : e < p
          /\ Net(bb, PosOf(bb, p) - 1, v) = Net(bb0, p - 1, v)

-----------------------------------------------------------------------------
(* C9 *)

\* the indices one mark/sweep iteration erases from block b
ErasedByIteration(b) ==
    UNION {{LastIdx(b, INC, v), LastIdx(b, DEC, v)} :
              v \in {w \in Operands : HasPair(b, w)}}

\* C9: when an iteration of the while loop has ended, the block is the block
\* the iteration began with less, for each operand with a Py_IncRef and a
\* Py_DecRef in it, its last Py_IncRef and its last Py_DecRef: one of each is
\* gone, and every other instruction is kept in its order.
OnePairPerIteration ==
    (pc = "loop" /\ iters >= 1) =>
        /\ bb = Keep(bbIter, (1..Len(bbIter)) \ ErasedByIteration(bbIter))
        /\ \A v \in Operands :
              IF HasPair(bbIter, v)
              THEN /\ Count(bb, INC, v) = Count(bbIter, INC, v) - 1
                   /\ Count(bb, DEC, v) = Count(bbIter, DEC, v) - 1
              ELSE RefctCallsOn(bb, v) = RefctCallsOn(bbIter, v)

\* a second iteration had two increments of an operand to choose from and
\* erased the later one with the decrement
OnePairPerIterationWitness ==
    /\ pc = "loop" /\ iters = 2
    /\ \E v \in Operands :
          /\ Count(bbIter, INC, v) = 2 /\ Count(bbIter, DEC, v) = 1
          /\ Count(bb, INC, v) = 1 /\ Count(bb, DEC, v) = 0
          /\ CallsOn(bb, INC, v)[1] = CallsOn(bbIter, INC, v)[1]

-----------------------------------------------------------------------------
(* C10 *)

NoPair(b) == \A v \in Operands : ~HasPair(b, v)

\* what holds of the loop at every point
LoopDiscipline ==
    \* an iteration is followed by another exactly when it erased a pair
    /\ (pc = "loop" /\ iters >= 1) =>
          (didsomething <=> Len(bbIter) - Len(bb) >= 2)
    \* the loop is left after an iteration that erased nothing
    /\ pc = "done" => (iters >= 1 /\ bb = bbIter /\ ~didsomething)
    \* a block without a pair: one iteration, nothing changed
    /\ (pc = "done" /\ NoPair(bb0)) => (iters = 1 /\ bb = bb0)
    \* nothing stops the function short of its return
    /\ pc # "done" => ENABLED NextPairs

\* C10: remove_refct_pairs returns on every block; the loop goes round again
\* only after an iteration that erased a pair, is left after the first
\* iteration that erased nothing, and leaves a block without a pair as it
\* was after one iteration.
PairsTerminates == <>(pc = "done") /\ []LoopDiscipline

\* returned after two erasing iterations and a last one that erased nothing
PairsTerminatesWitness ==
    pc = "done" /\ iters = 3 /\ Len(bb) = Len(bb0) - 4

-----------------------------------------------------------------------------
(* C3 *)

\* no operand of any block has both a Py_IncRef and a Py_DecRef call left
NoPairLeft(f) == \A i \in 1..Len(f) : \A v \in Operands : ~HasPair(f[i], v)

\* C3: when remove_refct_calls has returned, no operand of any block has
\* both a Py_IncRef and a Py_DecRef call left, and a further run of the pass
\* erases no instruction.
PassIdempotent ==
    /\ runs >= 1 => NoPairLeft(func)
    /\ runs >= 2 => func = funcPrev

\* a second run on a function whose first run needed two iterations on a block
PassIdempotentWitness ==
    /\ runs = 2
    /\ func = funcPrev
    /\ \E i \in 1..Len(func0) : Len(func[i]) = Len(func0[i]) - 4

-----------------------------------------------------------------------------
(* C4 *)

\* C4: remove_native_function on a callable that is no key of native_funcs
\* raises KeyError and leaves native_funcs as it was.
RemoveMissingFails ==
    (last.op = "remove_native_function"
        /\ last.func \notin DOMAIN last.pre_native_funcs) =>
            /\ last.raised = "KeyError"
            /\ native_funcs = last.pre_native_funcs

\* the second removal of a callable that was registered, with other entries
\* in the registry
RemoveMissingFailsWitness ==
    /\ last.op = "remove_native_function"
    /\ last.func \in removed
    /\ last.func \notin DOMAIN last.pre_native_funcs
    /\ last.raised = "KeyError"
    /\ native_funcs # EmptyDict

-----------------------------------------------------------------------------
(* C5 *)

\* C5: get_executable with a descriptor marked native adds one entry to
\* native_funcs, keyed by the callable it made and holding the native symbol
\* name and the native function's address, and changes no other entry; with
\* a descriptor not marked native it leaves native_funcs as it was.
RegistersExactlyOne ==
    last.op = "get_executable" =>
        LET pre == last.pre_native_funcs
            c == made[Len(made)]
            name == last.fndesc.llvm_func_name
        IN IF last.fndesc.native
           THEN /\ c \notin DOMAIN pre
                /\ c \notin {made[i] : i \in 1..(Len(made) - 1)}
                /\ DOMAIN native_funcs = (DOMAIN pre) \cup {c}
                /\ native_funcs[c] = <<name, get_pointer_to_function(name)>>
                /\ \A k \in DOMAIN pre : native_funcs[k] = pre[k]
           ELSE native_funcs = pre

\* a native function registered beside an earlier entry
RegistersExactlyOneWitness ==
    /\ last.op = "get_executable"
    /\ last.fndesc.native
    /\ last.pre_native_funcs # EmptyDict
    /\ Cardinality(DOMAIN native_funcs) = Cardinality(DOMAIN last.pre_native_funcs) + 1

-----------------------------------------------------------------------------
(* C6 *)

\* C6: get_executable returns two values, the callable (bound to the
\* wrapper's address and to the environment passed in) and the native
\* function's address, whether or not the descriptor is marked native.
ReturnsCallableAndAddress ==
    last.op = "get_executable" =>
        /\ Len(last.ret) = 2
        /\ last.ret[1].fnptr
              = get_pointer_to_function(last.fndesc.llvm_cpython_wrapper_name)
        /\ last.ret[1].env = last.env
        /\ last.ret[2] = get_pointer_to_function(last.fndesc.llvm_func_name)

-----------------------------------------------------------------------------
(* C7 *)

\* C7: init() is idempotent: a further init() on an initialized context,
\* after any get_executable and remove_native_function calls, leaves the
\* registry's contents and the code generator instance as they were before
\* the call.
InitIdempotent ==
    last.op = "init" =>
        /\ native_funcs = last.pre_native_funcs
        /\ codegen = last.pre_codegen

====
